---- MODULE Spec2Model ----
(***************************************************************************)
(* Blue Square / Base Quest: the quest-progress engine (quest-service),    *)
(* the reward redemption path (reward-service, POST /api/rewards), the     *)
(* activity scan and reports (/api/activity), the notification broadcast,  *)
(* the lifecycle webhook and the creation routes, over a document store    *)
(* with last-writer-wins writes.                                           *)
(*                                                                         *)
(* Time is the calendar day: `today` is what                               *)
(* new Date().toISOString().split('T')[0] returns, a day number.  Optional *)
(* fields that the code tests with `||` or `&&` are 0 when absent, so the  *)
(* JavaScript falsy tests read the same here.  The timestamps startedAt    *)
(* and lastUpdated are carried by the code unread and are left out.        *)
(***************************************************************************)
EXTENDS Integers, Sequences, FiniteSets, TLC

VARIABLES
    today,          \* the current calendar day
    catalog,        \* the quests collection, newest first (orderBy createdAt desc)
    userQuests,     \* userQuests/{userId}: the UserQuestData document
    users,          \* users/{address}: the activity document (points, level)
    shareOutcome,   \* what the last completeShareQuest call returned
    onceADayRun,    \* history: length of the user's once-a-day login run
    rewards,        \* rewards/{id}: the Reward documents
    userRewards,    \* userRewards: how many records each (userId, rewardId) has
    pc,             \* where each request to /api/rewards stands
    req,            \* its <<userId, rewardId>>
    snap,           \* the Reward document it read (getRewardById)
    outcome,        \* the response it returned
    listed,         \* GET: the rows getAvailableRewardsForUser returned
    afterSuccess,   \* history: it began after a successful redemption of its pair
    activityLog,    \* users/{address}: activities, lastScannedBlock, isInitialScanComplete
    chain,          \* the chain: current block, what the indexer returns per direction
    scanHistory,    \* history: the last scan's fetched activities, the inserts made
    tokens,         \* the fids that have stored notification details
    sent,           \* notifications posted to the Farcaster endpoint, per fid
    hook,           \* what the last webhook call returned
    broadcast,      \* the running sendBroadcastNotification call
    created,         \* what the last creation request returned
    questOps,       \* where the quest operations of each user stand, and what they read
    scanOps         \* where each overlapping GET /api/activity stands, and what it read

questVars == <<today, catalog, userQuests, users, shareOutcome, onceADayRun>>
rewardVars == <<rewards, userRewards, pc, req, snap, outcome, listed, afterSuccess>>
activityVars == <<activityLog, chain, scanHistory>>
notifVars == <<tokens, sent, hook, broadcast, created>>
raceVars == <<questOps, scanOps>>
vars == <<questVars, rewardVars, activityVars, notifVars, raceVars>>

Users == {"u1", "u2"}

\* Operations of different users touch different documents; one user acts in
\* the quest specifications.
QuestUsers == {"u1"}

(***************************************************************************)
(* Bounds                                                                  *)
(***************************************************************************)
MaxDay == 4
WeekLastDay == 9
\* completeShareQuest is not called once the user's totalQuestsCompleted
\* reaches this count (the counter has no upper limit in the code).
MaxCompleted == 4
\* Requests to /api/rewards in one run.
MaxRequests == 2

(***************************************************************************)
(* Quest definitions (documents of the quests collection)                  *)
(***************************************************************************)
QuestDoc(id, type, points) ==
    [id |-> id, type |-> type, isActive |-> TRUE, points |-> points,
     streakDays |-> 0, activityCount |-> 0, targetDate |-> 0,
     shareCount |-> 0, dailyShareLimit |-> 0]

QEarly     == [QuestDoc("q_early", "early_adopter", 100) EXCEPT !.targetDate = 3]
QStreak    == [QuestDoc("q_streak", "streak_based", 50) EXCEPT !.streakDays = 2]
QShareOnce == [QuestDoc("q_once", "share_based", 10) EXCEPT !.shareCount = 1]
QStreakWeek == [QuestDoc("q_week", "streak_based", 50) EXCEPT !.streakDays = 7]

\* The order in which the admin publishes the quests of the general
\* specification; the catalog holds the first k of them, newest first.
PublishOrder == <<QEarly, QStreak, QShareOnce>>

RECURSIVE CatalogOf(_)
CatalogOf(k) == IF k = 0 THEN <<>> ELSE <<PublishOrder[k]>> \o CatalogOf(k - 1)

(***************************************************************************)
(* Documents                                                               *)
(***************************************************************************)
NoQuestData ==
    [exists |-> FALSE, quests |-> <<>>, dailyLoginStreak |-> 0, lastLoginDate |-> 0,
     totalQuestsCompleted |-> 0, totalQuestPoints |-> 0]

NoActivity ==
    [exists |-> FALSE, totalPoints |-> 0, combinedPoints |-> 0, level |-> "Newbie"]

\* Array.prototype.findIndex over the indices that pass the test, 1-based;
\* 0 when none passes.
First(passing) ==
    IF passing = {} THEN 0 ELSE CHOOSE i \in passing : \A j \in passing : i <= j

\* The threshold table of quest-service and firebase-service.
LevelOf(points) ==
    IF points >= 1000 THEN "Diamond Hands"
    ELSE IF points >= 500 THEN "Whale"
    ELSE IF points >= 200 THEN "DeFi Master"
    ELSE IF points >= 100 THEN "Crypto Native"
    ELSE IF points >= 50 THEN "HODLer"
    ELSE "Newbie"

\* new Date() <= new Date(targetDate): targetDate is a date, parsed as the
\* first instant of that day; an instant of day `now` is not after it exactly
\* when the day is earlier.
NotAfter(now, targetDate) == now < targetDate

\* quests.filter(quest => quest.isActive), in the order of the list.
RECURSIVE ActiveOf(_)
ActiveOf(quests) ==
    IF quests = <<>> THEN <<>>
    ELSE (IF Head(quests).isActive THEN <<Head(quests)>> ELSE <<>>) \o ActiveOf(Tail(quests))

\* activeQuests.filter(quest => !existingQuestIds.has(quest.id))
RECURSIVE MissingOf(_, _)
MissingOf(quests, existingQuestIds) ==
    IF quests = <<>> THEN <<>>
    ELSE (IF Head(quests).id \notin existingQuestIds THEN <<Head(quests)>> ELSE <<>>)
         \o MissingOf(Tail(quests), existingQuestIds)

getQuestsFromFirebase(cat) == ActiveOf(cat)

NewUserQuest(q) ==
    [questId |-> q.id, progress |-> 0, isCompleted |-> FALSE, completedAt |-> 0,
     dailyShares |-> <<>>]

\* quests.map(quest => ({ questId: quest.id, progress: 0, isCompleted: false, ... }))
RECURSIVE NewUserQuests(_)
NewUserQuests(quests) ==
    IF quests = <<>> THEN <<>>
    ELSE <<NewUserQuest(Head(quests))>> \o NewUserQuests(Tail(quests))

\* The store the quest operations read and write: S.uq is userQuests, S.us is users.
initializeUserQuestData(S, userId, cat, now) ==
    LET quests == getQuestsFromFirebase(cat)
    IN [S EXCEPT !.uq[userId] =
            [exists |-> TRUE,
             quests |-> NewUserQuests(quests),
             dailyLoginStreak |-> 0, lastLoginDate |-> now,
             totalQuestsCompleted |-> 0, totalQuestPoints |-> 0]]

\* Faulty variant: the flag is recomputed from the new progress on every update.
CarriedCompletion_Recomputed(quest) == FALSE

\* let isCompleted = quest.isCompleted: the stored flag is the starting value.
CarriedCompletion(quest) == quest.isCompleted

\* The switch on the quest type: does this progress value complete the quest?
MeetsRequirement(questDefinition, progress, now) ==
    CASE questDefinition.type = "streak_based" -> progress >= questDefinition.streakDays
      [] questDefinition.type = "activity_based" -> progress >= questDefinition.activityCount
      [] questDefinition.type = "early_adopter" ->
            questDefinition.targetDate # 0 /\ NotAfter(now, questDefinition.targetDate)
      [] OTHER -> FALSE

\* The users document after a quest completion: level and combinedPoints from
\* activity points plus the new quest points.
LevelAfterCompletion(userData, totalQuestPoints) ==
    IF userData.exists
    THEN [userData EXCEPT !.level = LevelOf(userData.totalPoints + totalQuestPoints),
                          !.combinedPoints = userData.totalPoints + totalQuestPoints]
    ELSE userData

checkAndUpdateQuestProgress(S, userId, questId, progress, cat, now) ==
    LET data == S.uq[userId]
        quests == data.quests
        questIndex == First({i \in 1..Len(quests) : quests[i].questId = questId})
        questsFromFirebase == getQuestsFromFirebase(cat)
        defIndex == First({i \in 1..Len(questsFromFirebase) : questsFromFirebase[i].id = questId})
    IN  IF ~data.exists \/ questIndex = 0 \/ defIndex = 0 THEN S
        ELSE
        LET quest == quests[questIndex]
            questDefinition == questsFromFirebase[defIndex]
            meets == ~CarriedCompletion(quest) /\ MeetsRequirement(questDefinition, progress, now)
            isCompleted == CarriedCompletion(quest) \/ meets
            newProgress == IF meets /\ questDefinition.type = "early_adopter" THEN 1 ELSE progress
            newlyCompleted == isCompleted /\ ~quest.isCompleted
            updatedQuest ==
                [questId |-> quest.questId,
                 progress |-> newProgress,
                 isCompleted |-> isCompleted,
                 completedAt |-> IF newlyCompleted THEN now
                                 ELSE IF quest.completedAt # 0 /\ ~isCompleted
                                      THEN quest.completedAt
                                      ELSE 0,
                 dailyShares |-> <<>>]
            totalQuestPoints == data.totalQuestPoints
                                + (IF newlyCompleted THEN questDefinition.points ELSE 0)
            totalQuestsCompleted == data.totalQuestsCompleted
                                    + (IF newlyCompleted THEN 1 ELSE 0)
        IN  [uq |-> [S.uq EXCEPT ![userId] =
                        [data EXCEPT !.quests = [quests EXCEPT ![questIndex] = updatedQuest],
                                     !.totalQuestPoints = totalQuestPoints,
                                     !.totalQuestsCompleted = totalQuestsCompleted]],
             us |-> IF newlyCompleted
                    THEN [S.us EXCEPT ![userId] = LevelAfterCompletion(@, totalQuestPoints)]
                    ELSE S.us]

\* Faulty variant: a gap of more than one day is counted as a consecutive day.
NextStreak_NoReset(data, now) ==
    IF data.lastLoginDate = now
    THEN (IF data.dailyLoginStreak = 0 THEN 1 ELSE data.dailyLoginStreak)
    ELSE data.dailyLoginStreak + 1

\* The streak that updateDailyLoginStreak stores.
NextStreak(data, now) ==
    IF data.lastLoginDate = now
    THEN (IF data.dailyLoginStreak = 0 THEN 1 ELSE data.dailyLoginStreak)
    ELSE IF data.lastLoginDate = now - 1
         THEN data.dailyLoginStreak + 1
         ELSE 1

updateDailyLoginStreak(S, userId, cat, now) ==
    LET data == S.uq[userId] IN
    IF ~data.exists THEN initializeUserQuestData(S, userId, cat, now)
    ELSE
    LET streak == NextStreak(data, now)
        S1 == [S EXCEPT !.uq[userId] =
                  [data EXCEPT !.dailyLoginStreak = streak, !.lastLoginDate = now]]
        quests == getQuestsFromFirebase(cat)
        streakIndex == First({i \in 1..Len(quests) : quests[i].type = "streak_based" /\ quests[i].isActive})
    IN  IF streakIndex # 0
        THEN checkAndUpdateQuestProgress(S1, userId, quests[streakIndex].id, streak, cat, now)
        ELSE S1

\* Faulty variant: the entries of the missing quests replace the stored ones.
syncMissingQuests_DropsExisting(S, userId, cat) ==
    LET userQuestData == S.uq[userId] IN
    IF ~userQuestData.exists THEN S
    ELSE
    LET activeQuests == ActiveOf(getQuestsFromFirebase(cat))
        existingQuestIds == {userQuestData.quests[i].questId : i \in 1..Len(userQuestData.quests)}
        missingQuests == MissingOf(activeQuests, existingQuestIds)
    IN  IF Len(missingQuests) = 0 THEN S
        ELSE [S EXCEPT !.uq[userId].quests = NewUserQuests(missingQuests)]

syncMissingQuests(S, userId, cat) ==
    LET userQuestData == S.uq[userId] IN
    IF ~userQuestData.exists THEN S
    ELSE
    LET activeQuests == ActiveOf(getQuestsFromFirebase(cat))
        existingQuestIds == {userQuestData.quests[i].questId : i \in 1..Len(userQuestData.quests)}
        missingQuests == MissingOf(activeQuests, existingQuestIds)
        newUserQuests == NewUserQuests(missingQuests)
    IN  IF Len(missingQuests) = 0 THEN S
        ELSE [S EXCEPT !.uq[userId].quests = userQuestData.quests \o newUserQuests]

\* getAvailableQuests: the store after its auto-migration (the listing it
\* returns is read from that store).
getAvailableQuests(S, userId, cat) ==
    IF ~S.uq[userId].exists THEN S ELSE syncMissingQuests(S, userId, cat)

completeEarlyAdopterQuest(S, userId, cat, now) ==
    LET S1 == IF ~S.uq[userId].exists THEN initializeUserQuestData(S, userId, cat, now) ELSE S
        quests == getQuestsFromFirebase(cat)
        earlyIndex == First({i \in 1..Len(quests) : quests[i].type = "early_adopter" /\ quests[i].isActive})
    IN  IF earlyIndex # 0
           /\ quests[earlyIndex].targetDate # 0
           /\ NotAfter(now, quests[earlyIndex].targetDate)
        THEN checkAndUpdateQuestProgress(S1, userId, quests[earlyIndex].id, 1, cat, now)
        ELSE S1

\* Faulty variant: the ledger entry of the day is not found.
SharesOn_NotFound(dailyShares, now) == 0

\* todayShares?.count || 0 for the ledger entry of `now`.
SharesOn(dailyShares, now) ==
    LET i == First({k \in 1..Len(dailyShares) : dailyShares[k].date = now})
    IN IF i = 0 THEN 0 ELSE dailyShares[i].count

\* The dailyShares ledger with one more share on `now`.
RecordShare(dailyShares, now) ==
    LET i == First({k \in 1..Len(dailyShares) : dailyShares[k].date = now})
    IN IF i # 0
       THEN [dailyShares EXCEPT ![i].count = @ + 1]
       ELSE Append(dailyShares, [date |-> now, count |-> 1])

ShareResult(success, message, pointsEarned, dailyLimitReached) ==
    [success |-> success, message |-> message, pointsEarned |-> pointsEarned,
     dailyLimitReached |-> dailyLimitReached]

\* userQuestData.quests.map(uq => uq.questId === questId ? {...} : uq)
RECURSIVE WithShare(_, _, _, _, _)
WithShare(userQuestList, questId, newProgress, requiredShares, now) ==
    IF userQuestList = <<>> THEN <<>>
    ELSE LET uq == Head(userQuestList)
         IN <<IF uq.questId = questId
              THEN [uq EXCEPT
                      !.progress = newProgress,
                      !.isCompleted = newProgress >= requiredShares,
                      !.completedAt = IF newProgress >= requiredShares THEN now ELSE @,
                      !.dailyShares = RecordShare(@, now)]
              ELSE uq>>
            \o WithShare(Tail(userQuestList), questId, newProgress, requiredShares, now)

\* if (currentUserQuest?.isCompleted) return 'Quest already completed'
AlreadyCompleted(currentUserQuest) == currentUserQuest.isCompleted

\* completeShareQuest: the store it leaves (S) and what it returns (result).
completeShareQuest(S, userId, questId, cat, now) ==
    LET quests == getQuestsFromFirebase(cat)
        shareIndex == First({i \in 1..Len(quests) : quests[i].id = questId /\ quests[i].type = "share_based" /\ quests[i].isActive})
    IN  IF shareIndex = 0
        THEN [S |-> S, result |-> ShareResult(FALSE, "Share quest not found or not active", 0, FALSE)]
        ELSE
        LET shareQuest == quests[shareIndex]
            S1 == IF ~S.uq[userId].exists
                  THEN initializeUserQuestData(S, userId, cat, now) ELSE S
            userQuestData == S1.uq[userId]
            currentIndex == First({i \in 1..Len(userQuestData.quests) : userQuestData.quests[i].questId = questId})
            found == currentIndex # 0
            currentUserQuest == userQuestData.quests[currentIndex]
            dailyLimit == shareQuest.dailyShareLimit
            todayShareCount == IF found THEN SharesOn(currentUserQuest.dailyShares, now) ELSE 0
            requiredShares == IF shareQuest.shareCount = 0 THEN 1 ELSE shareQuest.shareCount
            currentProgress == IF found THEN currentUserQuest.progress ELSE 0
            newProgress == currentProgress + 1
            updatedQuests ==
                WithShare(userQuestData.quests, questId, newProgress, requiredShares, now)
            S2 == [S1 EXCEPT !.uq[userId].quests = updatedQuests]
        IN  IF found /\ AlreadyCompleted(currentUserQuest)
            THEN [S |-> S1, result |-> ShareResult(FALSE, "Quest already completed", 0, FALSE)]
            ELSE IF dailyLimit > 0 /\ todayShareCount >= dailyLimit
            THEN [S |-> S1, result |-> ShareResult(FALSE, "Daily limit reached", 0, TRUE)]
            ELSE IF newProgress >= requiredShares
            THEN [S |-> [S2 EXCEPT
                            !.uq[userId].totalQuestsCompleted =
                                userQuestData.totalQuestsCompleted + 1,
                            !.uq[userId].totalQuestPoints =
                                userQuestData.totalQuestPoints + shareQuest.points],
                  result |-> ShareResult(TRUE, "Share quest completed!", shareQuest.points, FALSE)]
            ELSE [S |-> S2, result |-> ShareResult(TRUE, "Progress updated", 0, FALSE)]

(***************************************************************************)
(* Rewards: reward-service and POST/GET /api/rewards.  A request is a slot *)
(* whose awaited store calls are separate steps, so requests interleave.   *)
(***************************************************************************)
Slots == 1..MaxRequests

\* The documents the quest and reward operations read and write.
Store == [uq |-> userQuests, us |-> users]

RewardIds == {"r1"}

\* A request field that was not sent.
Missing == ""

\* An id that names no document of the rewards collection.
UnknownRewardId == "r0"

NoReward ==
    [exists |-> FALSE, isActive |-> FALSE, maxRedemptions |-> 0, currentRedemptions |-> 0,
     requiredLevel |-> 0, questIds |-> {}]

\* The responses of POST /api/rewards (its error strings) and of GET.
MissingFields  == "Missing required fields: userId and rewardId"
NotFound       == "Reward not found"
NotActive      == "Reward is not active"
AlreadyRedeemed == "User has already redeemed this reward"
LimitReachedError == "Reward redemption limit reached"
LevelNotMet    == "Level requirement not met"
QuestsNotMet   == "Quest requirements not met"
Redeemed       == "Reward redeemed successfully"
Listed         == "rewards listed"
Rejections == {MissingFields, NotFound, NotActive, AlreadyRedeemed, LimitReachedError,
               LevelNotMet, QuestsNotMet}

getRewardById(rw, id) == IF id \in DOMAIN rw THEN rw[id] ELSE NoReward

\* Faulty variant: the query's catch branch, which answers false.
hasUserRedeemedReward_Never(ur, userId, rewardId) == FALSE

\* !querySnapshot.empty for userId == and rewardId ==.
hasUserRedeemedReward(ur, userId, rewardId) == ur[<<userId, rewardId>>] > 0

\* getCombinedPoints(address).totalPoints: activity points plus quest points.
getCombinedPoints(S, address) ==
    (IF S.us[address].exists THEN S.us[address].totalPoints ELSE 0)
    + (IF S.uq[address].exists THEN S.uq[address].totalQuestPoints ELSE 0)

\* userQuestData?.quests?.filter(isCompleted)?.map(questId) || []
CompletedQuests(S, userId) ==
    {S.uq[userId].quests[i].questId :
        i \in {j \in 1..Len(S.uq[userId].quests) : S.uq[userId].quests[j].isCompleted}}

\* Faulty variant: > where the code has >=.
LimitReached_OffByOne(reward) ==
    reward.maxRedemptions # 0 /\ reward.currentRedemptions > reward.maxRedemptions

\* reward.maxRedemptions && reward.currentRedemptions >= reward.maxRedemptions
LimitReached(reward) ==
    reward.maxRedemptions # 0 /\ reward.currentRedemptions >= reward.maxRedemptions

LevelTooLow(reward, totalPoints) == totalPoints < reward.requiredLevel

QuestsMissing(reward, completed) ==
    reward.questIds # {} /\ (reward.questIds \ completed) # {}

\* Faulty variant: the quest requirement is not looked at.
MissingRequirements_NoQuests(reward, totalPoints, completed) ==
    (IF LevelTooLow(reward, totalPoints) THEN <<"Need level">> ELSE <<>>)
    \o (IF LimitReached(reward) THEN <<"Reward limit reached">> ELSE <<>>)

\* The missingRequirements list getAvailableRewardsForUser builds for a reward.
MissingRequirements(reward, totalPoints, completed) ==
    (IF LevelTooLow(reward, totalPoints) THEN <<"Need level">> ELSE <<>>)
    \o (IF QuestsMissing(reward, completed) THEN <<"Complete more quest(s)">> ELSE <<>>)
    \o (IF LimitReached(reward) THEN <<"Reward limit reached">> ELSE <<>>)

\* getActiveRewards: where isActive == true.
ActiveRewardIds(rw) == {r \in DOMAIN rw : rw[r].exists /\ rw[r].isActive}

getAvailableRewardsForUser(rw, ur, S, userId) ==
    [r \in ActiveRewardIds(rw) |->
        LET isRedeemed == ur[<<userId, r>>] > 0
            missingRequirements ==
                MissingRequirements(rw[r], getCombinedPoints(S, userId), CompletedQuests(S, userId))
        IN [isEligible |-> Len(missingRequirements) = 0 /\ ~isRedeemed,
            isRedeemed |-> isRedeemed,
            missingRequirements |-> missingRequirements]]

Finish(p, response) ==
    /\ pc' = [pc EXCEPT ![p] = "done"]
    /\ outcome' = [outcome EXCEPT ![p] = response]

Goto(p, next) ==
    /\ pc' = [pc EXCEPT ![p] = next]
    /\ UNCHANGED outcome

\* POST: the field check, getRewardById and the isActive check.
PostRewards(p, userId, rewardId) ==
    /\ pc[p] = "idle"
    /\ req' = [req EXCEPT ![p] = <<userId, rewardId>>]
    /\ afterSuccess' = [afterSuccess EXCEPT ![p] =
            \E q \in Slots : pc[q] = "done" /\ outcome[q] = Redeemed
                             /\ req[q] = <<userId, rewardId>>]
    /\ LET reward == getRewardById(rewards, rewardId) IN
       IF userId = Missing \/ rewardId = Missing
       THEN Finish(p, MissingFields) /\ UNCHANGED snap
       ELSE IF ~reward.exists
       THEN Finish(p, NotFound) /\ UNCHANGED snap
       ELSE IF ~reward.isActive
       THEN Finish(p, NotActive) /\ UNCHANGED snap
       ELSE Goto(p, "hasRedeemed") /\ snap' = [snap EXCEPT ![p] = reward]
    /\ UNCHANGED <<rewards, userRewards, listed, questVars, activityVars, notifVars, raceVars>>

CheckRedeemed(p) ==
    /\ pc[p] = "hasRedeemed"
    /\ IF hasUserRedeemedReward(userRewards, req[p][1], req[p][2])
       THEN Finish(p, AlreadyRedeemed)
       ELSE Goto(p, "checkLimit")
    /\ UNCHANGED <<rewards, userRewards, req, snap, listed, afterSuccess, questVars, activityVars, notifVars, raceVars>>

CheckLimit(p) ==
    /\ pc[p] = "checkLimit"
    /\ IF LimitReached(snap[p])
       THEN Finish(p, LimitReachedError)
       ELSE Goto(p, "checkEligibility")
    /\ UNCHANGED <<rewards, userRewards, req, snap, listed, afterSuccess, questVars, activityVars, notifVars, raceVars>>

\* Promise.all([getCombinedPoints, getUserQuestData]) and the two checks.
CheckEligibility(p) ==
    /\ pc[p] = "checkEligibility"
    /\ IF LevelTooLow(snap[p], getCombinedPoints(Store, req[p][1]))
       THEN Finish(p, LevelNotMet)
       ELSE IF QuestsMissing(snap[p], CompletedQuests(Store, req[p][1]))
       THEN Finish(p, QuestsNotMet)
       ELSE Goto(p, "setDoc")
    /\ UNCHANGED <<rewards, userRewards, req, snap, listed, afterSuccess, questVars, activityVars, notifVars, raceVars>>

\* recordUserReward: setDoc of a new userRewards document.
RecordSetDoc(p) ==
    /\ pc[p] = "setDoc"
    /\ userRewards' = [userRewards EXCEPT ![req[p]] = @ + 1]
    /\ Goto(p, "updateDoc")
    /\ UNCHANGED <<rewards, req, snap, listed, afterSuccess, questVars, activityVars, notifVars, raceVars>>

\* recordUserReward: updateDoc of the reward with reward.currentRedemptions + 1,
\* then the success response.
RecordUpdateDoc(p) ==
    /\ pc[p] = "updateDoc"
    /\ rewards' = [rewards EXCEPT ![req[p][2]].currentRedemptions =
                        snap[p].currentRedemptions + 1]
    /\ Finish(p, Redeemed)
    /\ UNCHANGED <<userRewards, req, snap, listed, afterSuccess, questVars, activityVars, notifVars, raceVars>>

\* GET /api/rewards?userId=
GetRewards(p, userId) ==
    /\ pc[p] = "idle"
    /\ req' = [req EXCEPT ![p] = <<userId, Missing>>]
    /\ listed' = [listed EXCEPT ![p] =
                    getAvailableRewardsForUser(rewards, userRewards, Store, userId)]
    /\ Finish(p, Listed)
    /\ UNCHANGED <<rewards, userRewards, snap, afterSuccess, questVars, activityVars, notifVars, raceVars>>

NoRequests ==
    /\ pc = [p \in Slots |-> "idle"]
    /\ req = [p \in Slots |-> <<Missing, Missing>>]
    /\ snap = [p \in Slots |-> NoReward]
    /\ outcome = [p \in Slots |-> "none"]
    /\ listed = [p \in Slots |-> <<>>]
    /\ afterSuccess = [p \in Slots |-> FALSE]

NoRecords == [k \in Users \X (RewardIds \cup {UnknownRewardId}) |-> 0]

\* Rewards as POST /api/rewards/create stores them: maxRedemptions || null,
\* currentRedemptions 0.
RewardDocs ==
    {[exists |-> TRUE, isActive |-> a, maxRedemptions |-> m, currentRedemptions |-> 0,
      requiredLevel |-> l, questIds |-> qs] :
        a \in BOOLEAN, m \in {0, 1}, l \in {0, 200}, qs \in {{}, {"q_early"}}}

\* The quest and activity documents of a user who has not opened the quests,
\* has opened them, or has completed the early-adopter quest.
EmptyStore == [uq |-> [u \in Users |-> NoQuestData], us |-> [u \in Users |-> NoActivity]]

ProfileStore(S, userId, activity, stage) ==
    LET S0 == [S EXCEPT !.us[userId] = activity]
    IN CASE stage = "none" -> S0
         [] stage = "opened" -> initializeUserQuestData(S0, userId, <<QEarly>>, 1)
         [] stage = "completed" -> completeEarlyAdopterQuest(S0, userId, <<QEarly>>, 1)

(***************************************************************************)
(* Quest actions: each operation runs to its end before the next begins.   *)
(***************************************************************************)
NoShare == ShareResult(FALSE, "none", 0, FALSE)

\* History of the login scenario: n >= 1 when the user's first call found no
\* stored quest data and updateDailyLoginStreak has since run exactly once on
\* each of n consecutive days (today the last); -1 when that no longer holds;
\* 0 before the user's first call.
RunAfterLogin(userId) ==
    IF ~userQuests[userId].exists
    THEN (IF onceADayRun[userId] = 0 THEN 1 ELSE -1)
    ELSE IF onceADayRun[userId] >= 1 /\ userQuests[userId].lastLoginDate = today - 1
         THEN onceADayRun[userId] + 1
         ELSE -1

AdvanceDay(lastDay) ==
    /\ today < lastDay
    /\ today' = today + 1
    /\ UNCHANGED <<catalog, userQuests, users, shareOutcome, onceADayRun, rewardVars, activityVars, notifVars, raceVars>>

\* POST /api/quests/create (setDoc into the quests collection): the next
\* quest of the schedule enters the collection, ahead of the older ones
\* (getQuestsFromFirebase orders by createdAt, newest first).
CreateQuest ==
    /\ Len(catalog) < Len(PublishOrder)
    /\ catalog' = <<PublishOrder[Len(catalog) + 1]>> \o catalog
    /\ UNCHANGED <<today, userQuests, users, shareOutcome, onceADayRun, rewardVars, activityVars, notifVars, raceVars>>

UpdateDailyLoginStreak(userId) ==
    /\ LET S == updateDailyLoginStreak(Store, userId, catalog, today)
       IN userQuests' = S.uq /\ users' = S.us
    /\ UNCHANGED <<today, catalog, shareOutcome, onceADayRun, rewardVars, activityVars, notifVars, raceVars>>

\* The same operation in the week scenario, which keeps the history.
DailyLogin(userId) ==
    /\ LET S == updateDailyLoginStreak(Store, userId, catalog, today)
       IN userQuests' = S.uq /\ users' = S.us
    /\ onceADayRun' = [onceADayRun EXCEPT ![userId] = RunAfterLogin(userId)]
    /\ UNCHANGED <<today, catalog, shareOutcome, rewardVars, activityVars, notifVars, raceVars>>

CompleteEarlyAdopterQuest(userId) ==
    /\ LET S == completeEarlyAdopterQuest(Store, userId, catalog, today)
       IN userQuests' = S.uq /\ users' = S.us
    /\ UNCHANGED <<today, catalog, shareOutcome, onceADayRun, rewardVars, activityVars, notifVars, raceVars>>

CompleteShareQuest(userId, questId) ==
    /\ userQuests[userId].totalQuestsCompleted < MaxCompleted
    /\ LET R == completeShareQuest(Store, userId, questId, catalog, today)
       IN /\ userQuests' = R.S.uq
          /\ users' = R.S.us
          /\ shareOutcome' = [shareOutcome EXCEPT ![userId] = R.result]
    /\ UNCHANGED <<today, catalog, onceADayRun, rewardVars, activityVars, notifVars, raceVars>>

GetAvailableQuests(userId) ==
    /\ LET S == getAvailableQuests(Store, userId, catalog)
       IN userQuests' = S.uq /\ users' = S.us
    /\ UNCHANGED <<today, catalog, shareOutcome, onceADayRun, rewardVars, activityVars, notifVars, raceVars>>

\* GET /api/quests: updateDailyLoginStreak, then getAvailableQuests.
QuestsGET(userId) ==
    /\ LET S1 == updateDailyLoginStreak(Store, userId, catalog, today)
           S2 == getAvailableQuests(S1, userId, catalog)
       IN userQuests' = S2.uq /\ users' = S2.us
    /\ UNCHANGED <<today, catalog, shareOutcome, onceADayRun, rewardVars, activityVars, notifVars, raceVars>>

(***************************************************************************)
(* Activity: /api/activity over users/{address}.  The fields id and        *)
(* description of an Activity are written and never read back by the code  *)
(* modelled here, and are left out.  An absent asset or tokenId is "".     *)
(***************************************************************************)
\* POINTS_MAP[type] || 5
POINTS_MAP(type) ==
    CASE type = "token_transfer" -> 10
      [] type = "nft_transfer" -> 25
      [] type = "contract_interaction" -> 15
      [] type = "swap" -> 30
      [] type = "stake" -> 20
      [] type = "mint" -> 35
      [] OTHER -> 5

\* The two literal addresses categorizeTransaction looks for; the other
\* substrings it looks for ('uniswap', 'stake', ...) occur in no hex address.
UniswapRouter == "0x7a250d5630b4cf539739df2c5dacb4c659f2488d"
BeaconDeposit == "0x00000000219ab540356cbb839cbe05303d7705fa"
NoAddress == ""
Wallet == "0x5afe"

Transfer(hash, category, blockNum, to, asset, tokenId) ==
    [hash |-> hash, category |-> category, blockNum |-> blockNum, to |-> to,
     asset |-> asset, tokenId |-> tokenId]

categorizeTransaction(transfer) ==
    IF transfer.category \in {"erc721", "erc1155"} THEN "nft_transfer"
    ELSE IF transfer.category = "erc20"
    THEN (IF transfer.to = UniswapRouter THEN "swap" ELSE "token_transfer")
    ELSE IF transfer.category \in {"external", "internal"}
    THEN (IF transfer.to = BeaconDeposit THEN "stake"
          ELSE IF transfer.to = NoAddress THEN "mint"
          ELSE "contract_interaction")
    ELSE "contract_interaction"

\* The Activity performBlockchainScan builds from one transfer.
ActivityOf(transfer, direction) ==
    LET type == categorizeTransaction(transfer)
    IN [type |-> type, timestamp |-> transfer.blockNum * 1000,
        points |-> POINTS_MAP(type), hash |-> transfer.hash,
        direction |-> direction, asset |-> transfer.asset,
        tokenId |-> transfer.tokenId]

RECURSIVE ActivitiesOf(_, _)
ActivitiesOf(transfers, direction) ==
    IF transfers = <<>> THEN <<>>
    ELSE <<ActivityOf(Head(transfers), direction)>> \o ActivitiesOf(Tail(transfers), direction)

\* currentBlock = 0: getCurrentBlockNumber returned null, the scan throws
\* and is caught.  fromBlock = 0: undefined.
performBlockchainScan(fromBlock, currentBlock, outboundTransfers, inboundTransfers) ==
    IF currentBlock = 0
    THEN [newActivities |-> <<>>, lastScannedBlock |-> fromBlock]
    ELSE [newActivities |-> ActivitiesOf(outboundTransfers, "outbound")
                            \o ActivitiesOf(inboundTransfers, "inbound"),
          lastScannedBlock |-> currentBlock]

\* The threshold table of the activity route.
getLevelFromPoints(points) ==
    IF points >= 1000 THEN "Diamond"
    ELSE IF points >= 500 THEN "Platinum"
    ELSE IF points >= 200 THEN "Gold"
    ELSE IF points >= 100 THEN "Silver"
    ELSE IF points >= 50 THEN "Bronze"
    ELSE "Newbie"

\* The test of the findIndex callback in the merge.
SameActivity(activity, a) ==
    IF activity.type = "nft_transfer" /\ a.type = "nft_transfer"
    THEN /\ a.hash = activity.hash
         /\ a.direction = activity.direction
         /\ a.asset = activity.asset
         /\ a.tokenId = activity.tokenId
    ELSE a.hash = activity.hash /\ a.direction = activity.direction

\* The filter over the indices from..to of the list, by halves.
RECURSIVE KeptFrom(_, _, _)
KeptFrom(self, from, to) ==
    IF from > to THEN <<>>
    ELSE IF from = to
    THEN (IF First({i \in 1..Len(self) : SameActivity(self[from], self[i])}) = from
          THEN <<self[from]>> ELSE <<>>)
    ELSE LET middle == (from + to) \div 2
         IN KeptFrom(self, from, middle) \o KeptFrom(self, middle + 1, to)

\* Faulty variant: the merge keeps every activity.
uniqueActivities_KeepAll(allActivities) == allActivities

\* allActivities.filter(...): an activity stays when it is the first of the
\* list that passes the test against it.
uniqueActivities(allActivities) == KeptFrom(allActivities, 1, Len(allActivities))

\* The activities of the given timestamps, later timestamps first and those
\* of one timestamp in the order of the list; by halves of the timestamps.
RECURSIVE NewestFirst(_, _)
NewestFirst(activities, timestamps) ==
    IF timestamps = {} THEN <<>>
    ELSE IF Cardinality(timestamps) = 1
    THEN LET At(a) == a.timestamp \in timestamps
         IN SelectSeq(activities, At)
    ELSE LET pivot == CHOOSE t \in timestamps :
                         Cardinality({s \in timestamps : s > t}) = Cardinality(timestamps) \div 2
             later == {s \in timestamps : s > pivot}
         IN NewestFirst(activities, later) \o NewestFirst(activities, timestamps \ later)

\* sort((a, b) => b.timestamp - a.timestamp): descending, and stable, so
\* activities of one timestamp keep their order.
SortByTimestamp(activities) ==
    NewestFirst(activities, {activities[i].timestamp : i \in 1..Len(activities)})

RECURSIVE PointsFrom(_, _, _)
PointsFrom(activities, from, to) ==
    IF from > to THEN 0
    ELSE IF from = to THEN activities[from].points
    ELSE LET middle == (from + to) \div 2
         IN PointsFrom(activities, from, middle) + PointsFrom(activities, middle + 1, to)

\* reduce((sum, activity) => sum + activity.points, 0)
PointsOf(activities) == PointsFrom(activities, 1, Len(activities))

NoActivityLog == [activities |-> <<>>, lastScannedBlock |-> 0, isInitialScanComplete |-> FALSE]

\* The document the merge branch of GET saves (saveUserActivity, setDoc).
MergedDocument(existingActivities, scanResult, questPoints) ==
    LET unique == SortByTimestamp(uniqueActivities(scanResult.newActivities \o existingActivities))
        totalPoints == PointsOf(unique)
        combinedPoints == totalPoints + questPoints
    IN [doc |-> [exists |-> TRUE, totalPoints |-> totalPoints,
                 combinedPoints |-> combinedPoints,
                 level |-> getLevelFromPoints(combinedPoints)],
        log |-> [activities |-> unique,
                 lastScannedBlock |-> scanResult.lastScannedBlock,
                 isInitialScanComplete |-> TRUE]]

\* The activity POST /api/activity builds.
ManualActivity(type, hash, timestamp, direction) ==
    [type |-> type, timestamp |-> timestamp, points |-> POINTS_MAP(type),
     hash |-> hash, direction |-> IF direction = "" THEN "outbound" ELSE direction,
     asset |-> "", tokenId |-> ""]

ActivityCap == 100

\* if (activities.length > 100) activities.splice(100)
Capped(activities) ==
    IF Len(activities) > ActivityCap THEN SubSeq(activities, 1, ActivityCap) ELSE activities

\* addUserActivity: what it writes to users/{address}.
addUserActivity(doc, log, activity, questPoints) ==
    IF doc.exists
    THEN LET totalPoints == doc.totalPoints + activity.points
             combinedPoints == totalPoints + questPoints
         IN [doc |-> [exists |-> TRUE, totalPoints |-> totalPoints,
                      combinedPoints |-> combinedPoints,
                      level |-> LevelOf(combinedPoints)],
             log |-> [log EXCEPT !.activities = Capped(<<activity>> \o log.activities)]]
    ELSE [doc |-> [exists |-> TRUE, totalPoints |-> activity.points,
                   combinedPoints |-> activity.points, level |-> "Newbie"],
          log |-> [NoActivityLog EXCEPT !.activities = <<activity>>]]

\* Transaction hashes: of the transfers the indexer knows, and of the
\* activities a client reports.
TxHash(n) == <<"tx", n>>
ClientHash(n) == <<"client", n>>

\* The stored history after k reports of a swap to POST /api/activity, the
\* i-th with hash ClientHash(i) at time i, the latest first.
RECURSIVE ReportedFrom(_, _)
ReportedFrom(from, to) ==
    IF from > to THEN <<>>
    ELSE IF from = to THEN <<ManualActivity("swap", ClientHash(from), from, "")>>
    ELSE LET middle == (from + to) \div 2
         IN ReportedFrom(middle + 1, to) \o ReportedFrom(from, middle)

ReportedSwaps(k) == ReportedFrom(1, k)

\* History of an address: its latest operation on the activity document was
\* a scan (ran) that obtained `fetched` with the quest points `questPoints`;
\* that scan repeated the one before it, with the same fetched activities and
\* quest points and no report in between (repeated); the reports made.
NoScanHistory ==
    [ran |-> FALSE, fetched |-> <<>>, questPoints |-> 0, repeated |-> FALSE, inserts |-> 0]

\* The activity list behind an activity document whose points all came from
\* reported swaps.
LogBehind(doc) ==
    [NoActivityLog EXCEPT
        !.activities = Capped(ReportedSwaps(doc.totalPoints \div POINTS_MAP("swap")))]

NoChain == [block |-> 1, outbound |-> <<>>, inbound |-> <<>>]

\* Calls of each quest operation by one user in a run.
MaxRuns == 2

\* A quest operation of a user: at, where it stands; data, the userQuests
\* document it read; streak, the streak it stored; questId, its share quest;
\* runs, the calls made so far.
NoQuestOp ==
    [at |-> "idle", data |-> NoQuestData, streak |-> 0, questId |-> "", runs |-> 0]

\* A GET /api/activity in flight: its address, the activities it read and
\* what its scan returned.
NoScanOp ==
    [at |-> "idle", address |-> "", existed |-> FALSE, existingActivities |-> <<>>,
     newActivities |-> <<>>, lastScannedBlock |-> 0]

\* No operation is in flight.
NoOperations ==
    /\ questOps = [u \in Users |-> [login |-> NoQuestOp, share |-> NoQuestOp]]
    /\ scanOps = [p \in Slots |-> NoScanOp]

\* No request to /api/activity has been made.
NoActivityRequests ==
    /\ activityLog = [u \in Users |-> LogBehind(users[u])]
    /\ chain = NoChain
    /\ scanHistory = [u \in Users |-> NoScanHistory]

NoResults == [successful |-> 0, failed |-> 0, rateLimited |-> 0, noToken |-> 0]

\* No broadcast has begun.  at: where the call stands; i: the loop index;
\* pending: the sends of the batch that have not settled; batches: the sizes
\* of the batches issued; attempted: the fids a send was started for.
NoBroadcast ==
    [at |-> "idle", targetUsers |-> <<>>, i |-> 0, pending |-> 0, batches |-> <<>>,
     attempted |-> <<>>, results |-> NoResults]

NoHook == [status |-> 0, fid |-> 0, event |-> "", details |-> FALSE]

NoCreation == [status |-> 0, kind |-> "", written |-> FALSE, notified |-> ""]

\* Nobody has added the frame, nothing was sent or created.
NoNotifications ==
    /\ tokens = {}
    /\ sent = 0
    /\ hook = NoHook
    /\ broadcast = NoBroadcast
    /\ created = NoCreation

ShareQuestIds == {"q_once"}

\* Quest points are earned against an activity document that five reported
\* swaps created earlier, or against none.
ActivityDocs == {NoActivity,
                 [exists |-> TRUE, totalPoints |-> 150, combinedPoints |-> 150,
                  level |-> "Crypto Native"]}

InitQuests ==
    /\ today = 1
    /\ \E k \in 0..Len(PublishOrder) : catalog = CatalogOf(k)
    /\ userQuests = [u \in Users |-> NoQuestData]
    /\ \E a \in ActivityDocs : users = [u \in Users |-> IF u \in QuestUsers THEN a ELSE NoActivity]
    /\ shareOutcome = [u \in Users |-> NoShare]
    /\ onceADayRun = [u \in Users |-> 0]
    /\ rewards = [id \in RewardIds |-> NoReward]
    /\ userRewards = NoRecords
    /\ NoRequests
    /\ NoActivityRequests
    /\ NoOperations
    /\ NoNotifications

NextQuests ==
    \/ AdvanceDay(MaxDay)
    \/ CreateQuest
    \/ \E u \in QuestUsers : UpdateDailyLoginStreak(u)
    \/ \E u \in QuestUsers : CompleteEarlyAdopterQuest(u)
    \/ \E u \in QuestUsers : \E q \in ShareQuestIds : CompleteShareQuest(u, q)
    \/ \E u \in QuestUsers : GetAvailableQuests(u)
    \/ \E u \in QuestUsers : QuestsGET(u)

SpecQuests == InitQuests /\ [][NextQuests]_vars

\* The week scenario: one streak quest of seven days is in the catalog from
\* the start.
InitWeek ==
    /\ today = 1
    /\ catalog = <<QStreakWeek>>
    /\ userQuests = [u \in Users |-> NoQuestData]
    /\ \E a \in ActivityDocs : users = [u \in Users |-> IF u \in QuestUsers THEN a ELSE NoActivity]
    /\ shareOutcome = [u \in Users |-> NoShare]
    /\ onceADayRun = [u \in Users |-> 0]
    /\ rewards = [id \in RewardIds |-> NoReward]
    /\ userRewards = NoRecords
    /\ NoRequests
    /\ NoActivityRequests
    /\ NoOperations
    /\ NoNotifications

NextWeek ==
    \/ AdvanceDay(WeekLastDay)
    \/ \E u \in QuestUsers : DailyLogin(u)

SpecWeek == InitWeek /\ [][NextWeek]_vars

InitRewards ==
    /\ today = 1
    /\ catalog = <<QEarly>>
    /\ shareOutcome = [u \in Users |-> NoShare]
    /\ onceADayRun = [u \in Users |-> 0]
    /\ \E a \in ActivityDocs : \E stage \in {"none", "opened", "completed"} :
          LET S1 == ProfileStore(EmptyStore, "u1", CHOOSE x \in ActivityDocs : x.exists, "completed")
              S2 == ProfileStore(S1, "u2", a, stage)
          IN userQuests = S2.uq /\ users = S2.us
    /\ \E r \in RewardDocs : rewards = [id \in RewardIds |-> r]
    /\ userRewards = NoRecords
    /\ NoRequests
    /\ NoActivityRequests
    /\ NoOperations
    /\ NoNotifications

NextRewards ==
    \/ \E p \in Slots : \E u \in Users \cup {Missing} : \E r \in RewardIds \cup {UnknownRewardId} :
          PostRewards(p, u, r)
    \/ \E p \in Slots : CheckRedeemed(p)
    \/ \E p \in Slots : CheckLimit(p)
    \/ \E p \in Slots : CheckEligibility(p)
    \/ \E p \in Slots : RecordSetDoc(p)
    \/ \E p \in Slots : RecordUpdateDoc(p)
    \/ \E p \in Slots : \E u \in Users : GetRewards(p, u)

SpecRewards == InitRewards /\ [][NextRewards]_vars

(***************************************************************************)
(* Properties                                                              *)
(***************************************************************************)
AllQuestIds == {"q_early", "q_streak", "q_once", "q_week"}

QuestPool == {QEarly, QStreak, QShareOnce, QStreakWeek}

RewardPoints(questId) == (CHOOSE d \in QuestPool : d.id = questId).points

RECURSIVE SumPoints(_)
SumPoints(questIds) ==
    IF questIds = {} THEN 0
    ELSE LET q == CHOOSE x \in questIds : TRUE
         IN RewardPoints(q) + SumPoints(questIds \ {q})

EntryOf(doc, questId) ==
    First({i \in 1..Len(doc.quests) : doc.quests[i].questId = questId})

HasCompleted(doc, questId) ==
    \E i \in 1..Len(doc.quests) :
        doc.quests[i].questId = questId /\ doc.quests[i].isCompleted

ProgressOf(doc, questId) ==
    IF EntryOf(doc, questId) = 0 THEN 0 ELSE doc.quests[EntryOf(doc, questId)].progress

CompletedAtOf(doc, questId) ==
    IF EntryOf(doc, questId) = 0 THEN 0 ELSE doc.quests[EntryOf(doc, questId)].completedAt

\* C1: for every (userId, rewardId) pair at most one UserReward record exists,
\* in every reachable state, also when two requests for the pair interleave.
C1_AtMostOneRecord ==
    \A k \in DOMAIN userRewards : userRewards[k] <= 1

C3_CapRespected ==
    \A r \in RewardIds :
        rewards[r].maxRedemptions # 0 =>
            Cardinality({u \in Users : userRewards[<<u, r>>] > 0}) <= rewards[r].maxRedemptions

Lists(p, missing) ==
    /\ outcome[p] = Listed
    /\ "r1" \in DOMAIN listed[p]
    /\ listed[p]["r1"].missingRequirements = missing

RejectedWith(p, error) ==
    /\ pc'[p] = "done"
    /\ outcome'[p] = error
    /\ UNCHANGED <<rewards, userRewards>>

\* C5: a redemption request that fails a guard (on the reward document and the
\* user data it read) ends with the error of that guard: unknown reward,
\* inactive reward, cap reached, points below requiredLevel, required quest
\* not completed; and a rejected request writes neither a UserReward record
\* nor currentRedemptions.
C5_GuardsReject ==
    [][\A p \in Slots :
          /\ (pc[p] = "idle" /\ pc'[p] # "idle" /\ outcome'[p] # Listed
                /\ req'[p][1] # Missing /\ req'[p][2] \notin DOMAIN rewards)
                => RejectedWith(p, NotFound)
          /\ (pc[p] = "idle" /\ pc'[p] # "idle" /\ outcome'[p] # Listed
                /\ req'[p][1] # Missing /\ req'[p][2] \in DOMAIN rewards
                /\ ~rewards[req'[p][2]].isActive)
                => RejectedWith(p, NotActive)
          /\ (pc[p] = "checkLimit" /\ pc'[p] # pc[p]
                /\ snap[p].maxRedemptions # 0
                /\ snap[p].currentRedemptions >= snap[p].maxRedemptions)
                => RejectedWith(p, LimitReachedError)
          /\ (pc[p] = "checkEligibility" /\ pc'[p] # pc[p]
                /\ getCombinedPoints(Store, req[p][1]) < snap[p].requiredLevel)
                => RejectedWith(p, LevelNotMet)
          /\ (pc[p] = "checkEligibility" /\ pc'[p] # pc[p]
                /\ getCombinedPoints(Store, req[p][1]) >= snap[p].requiredLevel
                /\ ~(snap[p].questIds \subseteq CompletedQuests(Store, req[p][1])))
                => RejectedWith(p, QuestsNotMet)
          /\ (pc[p] # "done" /\ pc'[p] = "done" /\ outcome'[p] \in Rejections)
                => UNCHANGED <<rewards, userRewards>>]_vars

\* A request met the cap after another user's redemption filled it.
C5_Witness ==
    \E p, q \in Slots :
        /\ pc[p] = "done" /\ outcome[p] = LimitReachedError
        /\ pc[q] = "done" /\ outcome[q] = Redeemed /\ req[q][1] # req[p][1]
        /\ userRewards[req[p]] = 0

C7_ProgressNeverRegresses ==
    [][\A u \in Users : \A q \in AllQuestIds :
          HasCompleted(userQuests[u], q) =>
              ProgressOf(userQuests'[u], q) >= ProgressOf(userQuests[u], q)]_vars

\* C8: once a UserQuest is completed and has a completedAt, every later update
\* leaves completedAt present and unchanged.
C8_CompletedAtKept ==
    [][\A u \in Users : \A q \in AllQuestIds :
          (HasCompleted(userQuests[u], q) /\ CompletedAtOf(userQuests[u], q) # 0) =>
              CompletedAtOf(userQuests'[u], q) = CompletedAtOf(userQuests[u], q)]_vars

\* C9: every step changes totalQuestPoints by the reward points of the quests
\* that step first completes, and totalQuestsCompleted by their number: once
\* per (user, quest), at the transition to completed, and never otherwise.
C9_PointsOncePerCompletion ==
    [][\A u \in Users :
          LET newly == {q \in AllQuestIds :
                           ~HasCompleted(userQuests[u], q) /\ HasCompleted(userQuests'[u], q)}
          IN /\ userQuests'[u].totalQuestPoints =
                    userQuests[u].totalQuestPoints + SumPoints(newly)
             /\ userQuests'[u].totalQuestsCompleted =
                    userQuests[u].totalQuestsCompleted + Cardinality(newly)]_vars

\* C10: with a seven-day streak quest in the catalog, a user who starts with
\* no quest data and calls updateDailyLoginStreak once on each of seven
\* consecutive days has the quest completed on the seventh.
C10_CompletedOnDaySeven ==
    \A u \in Users :
        onceADayRun[u] = QStreakWeek.streakDays => HasCompleted(userQuests[u], "q_week")

\* What a step of updateDailyLoginStreak on stored quest data does to the
\* active streak quest: the user's entry for it, when there is one, holds the
\* resulting streak as its progress, and is completed exactly when it was
\* completed before or the streak reaches streakDays.
StreakQuestRechecked(u) ==
    LET quests == getQuestsFromFirebase(catalog)
        streakIndex == First({i \in 1..Len(quests) : quests[i].type = "streak_based"})
    IN  (streakIndex # 0 /\ EntryOf(userQuests[u], quests[streakIndex].id) # 0) =>
            /\ ProgressOf(userQuests'[u], quests[streakIndex].id) = userQuests'[u].dailyLoginStreak
            /\ HasCompleted(userQuests'[u], quests[streakIndex].id) <=>
                  \/ HasCompleted(userQuests[u], quests[streakIndex].id)
                  \/ userQuests'[u].dailyLoginStreak >= quests[streakIndex].streakDays

QShareDaily == [QuestDoc("q_share", "share_based", 20) EXCEPT !.shareCount = 3, !.dailyShareLimit = 2]
QShareTight == [QuestDoc("q_tight", "share_based", 30) EXCEPT !.shareCount = 2, !.dailyShareLimit = 2]

DailyShareQuests == {QShareDaily, QShareTight}
DailyShareQuestIds == {q.id : q \in DailyShareQuests}

canShareToday(userQuest, quest, now) ==
    LET dailyLimit == quest.dailyShareLimit
        sharesUsedToday == SharesOn(userQuest.dailyShares, now)
    IN  IF dailyLimit <= 0
        THEN [canShare |-> TRUE, sharesUsedToday |-> 0, dailyLimit |-> 0]
        ELSE [canShare |-> sharesUsedToday < dailyLimit,
              sharesUsedToday |-> sharesUsedToday, dailyLimit |-> dailyLimit]

InitShare ==
    /\ today = 1
    /\ \E withStreak \in BOOLEAN :
          catalog = <<QShareTight, QShareDaily>> \o (IF withStreak THEN <<QStreak>> ELSE <<>>)
    /\ userQuests = [u \in Users |-> NoQuestData]
    /\ \E a \in ActivityDocs : users = [u \in Users |-> IF u \in QuestUsers THEN a ELSE NoActivity]
    /\ shareOutcome = [u \in Users |-> NoShare]
    /\ onceADayRun = [u \in Users |-> 0]
    /\ rewards = [id \in RewardIds |-> NoReward]
    /\ userRewards = NoRecords
    /\ NoRequests
    /\ NoActivityRequests
    /\ NoOperations
    /\ NoNotifications

NextShare ==
    \/ AdvanceDay(MaxDay)
    \/ \E u \in QuestUsers : \E q \in DailyShareQuestIds : CompleteShareQuest(u, q)
    \/ \E u \in QuestUsers : UpdateDailyLoginStreak(u)

SpecShare == InitShare /\ [][NextShare]_vars

\* The quest document of a share quest id.
DefinitionOf(questId) == CHOOSE q \in DailyShareQuests : q.id = questId

\* The ledger of the user's entry holds dailyShareLimit shares for today.
AtDailyLimit(u, questId) ==
    /\ EntryOf(userQuests[u], questId) # 0
    /\ \E k \in 1..Len(userQuests[u].quests[EntryOf(userQuests[u], questId)].dailyShares) :
          LET ds == userQuests[u].quests[EntryOf(userQuests[u], questId)].dailyShares[k]
          IN ds.date = today /\ ds.count >= DefinitionOf(questId).dailyShareLimit

MaxInserts == 1
\* Activities reported before the run begins.
LongHistory == 100

\* The transfers of the address in the order they reach the indexer: two
\* token transfers sent in one transaction and one received in it (block 1);
\* an NFT transfer and two token transfers sent in another (block 2).
Landings ==
    <<<<Transfer(TxHash(1), "erc20", 1, Wallet, "USDC", ""), "outbound">>,
      <<Transfer(TxHash(1), "erc20", 1, Wallet, "DAI", ""), "outbound">>,
      <<Transfer(TxHash(1), "erc20", 1, Wallet, "WETH", ""), "inbound">>,
      <<Transfer(TxHash(2), "erc721", 2, Wallet, "PUNK", "7"), "outbound">>,
      <<Transfer(TxHash(2), "erc20", 2, Wallet, "USDC", ""), "outbound">>,
      <<Transfer(TxHash(2), "erc20", 2, Wallet, "DAI", ""), "outbound">>>>

\* The next transfer is mined and reaches the indexer, which returns the
\* transfers of a direction oldest first (fewer than its page of 50 here).
TransferLands ==
    /\ Len(chain.outbound) + Len(chain.inbound) < Len(Landings)
    /\ LET landing == Landings[Len(chain.outbound) + Len(chain.inbound) + 1]
       IN chain' = [chain EXCEPT ![landing[2]] = Append(@, landing[1]),
                                 !.block = landing[1].blockNum]
    /\ UNCHANGED <<activityLog, scanHistory, questVars, rewardVars, notifVars, raceVars>>

\* shouldScan without the comparison of block numbers.
shouldScan_WheneverComplete(doc, log, forceRefresh, blockSeen) ==
    \/ ~doc.exists
    \/ forceRefresh
    \/ log.isInitialScanComplete

\* Whether GET scans: no stored document, forceRefresh, or a block newer than
\* the last scanned one (blockSeen = 0: getCurrentBlockNumber returned null).
shouldScan(doc, log, forceRefresh, blockSeen) ==
    \/ ~doc.exists
    \/ forceRefresh
    \/ /\ log.isInitialScanComplete
       /\ blockSeen # 0 /\ log.lastScannedBlock # 0
       /\ blockSeen > log.lastScannedBlock

\* What the scan of GET obtains, from the block number and the transfers the
\* two fetches returned (<<>> when a fetch failed).
ScanOf(address, blockInScan, outboundTransfers, inboundTransfers) ==
    performBlockchainScan(IF users[address].exists
                          THEN activityLog[address].lastScannedBlock ELSE 0,
                          blockInScan, outboundTransfers, inboundTransfers)

\* GET /api/activity?address=...: the merge is saved when the scan found
\* activities; otherwise only lastScannedBlock is updated, which throws when
\* there is no document (updateDoc) and then writes nothing.
ActivityGET(address, forceRefresh, blockSeen, blockInScan, outboundTransfers, inboundTransfers) ==
    LET doc == users[address]
        log == activityLog[address]
        scans == shouldScan(doc, log, forceRefresh, blockSeen)
        scanResult == ScanOf(address, blockInScan, outboundTransfers, inboundTransfers)
        questPoints == userQuests[address].totalQuestPoints
        merged == MergedDocument(log.activities, scanResult, questPoints)
    IN /\ scanHistory' = IF scans
                         THEN [scanHistory EXCEPT
                                  ![address].ran = TRUE,
                                  ![address].fetched = scanResult.newActivities,
                                  ![address].questPoints = questPoints,
                                  ![address].repeated =
                                      /\ scanHistory[address].ran
                                      /\ scanHistory[address].fetched = scanResult.newActivities
                                      /\ scanHistory[address].questPoints = questPoints]
                         ELSE scanHistory
       /\ IF scans /\ Len(scanResult.newActivities) > 0
          THEN /\ users' = [users EXCEPT ![address] = merged.doc]
               /\ activityLog' = [activityLog EXCEPT ![address] = merged.log]
          ELSE IF scans /\ scanResult.lastScannedBlock # 0 /\ doc.exists
          THEN /\ activityLog' = [activityLog EXCEPT ![address].lastScannedBlock =
                                      scanResult.lastScannedBlock]
               /\ UNCHANGED users
          ELSE UNCHANGED <<users, activityLog>>
       /\ UNCHANGED <<chain, today, catalog, userQuests, shareOutcome, onceADayRun,
                      rewardVars, notifVars, raceVars>>

NoHash == <<"", 0>>

\* POST /api/activity: 400 without a type or a hash; otherwise
\* addUserActivity of the activity built from the body.
ActivityPOST(address, type, hash, direction) ==
    /\ scanHistory[address].inserts < MaxInserts
    /\ IF type = "" \/ hash = NoHash
       THEN UNCHANGED <<users, activityLog, scanHistory>>
       ELSE LET activity == ManualActivity(type, hash, chain.block * 1000, direction)
                written == addUserActivity(users[address], activityLog[address], activity,
                                           userQuests[address].totalQuestPoints)
            IN /\ users' = [users EXCEPT ![address] = written.doc]
               /\ activityLog' = [activityLog EXCEPT ![address] = written.log]
               /\ scanHistory' = [scanHistory EXCEPT ![address].ran = FALSE,
                                                     ![address].repeated = FALSE,
                                                     ![address].inserts = @ + 1]
    /\ UNCHANGED <<chain, today, catalog, userQuests, shareOutcome, onceADayRun,
                   rewardVars, notifVars, raceVars>>

\* The activity document after k reported swaps and no quest.
ReportedDoc(k) ==
    IF k = 0 THEN NoActivity
    ELSE [exists |-> TRUE, totalPoints |-> PointsOf(ReportedSwaps(k)),
          combinedPoints |-> PointsOf(ReportedSwaps(k)),
          level |-> IF k = 1 THEN "Newbie" ELSE LevelOf(PointsOf(ReportedSwaps(k)))]

ReportedTypes == {"swap", ""}
ReportedHashes == {ClientHash(0), TxHash(1), NoHash}

\* The run begins after k reports of the acting address.
StartAfter(k) ==
    /\ today = 1
    /\ catalog = <<QShareOnce, QEarly>>
    /\ userQuests = [u \in Users |-> NoQuestData]
    /\ users = [u \in Users |-> IF u \in QuestUsers THEN ReportedDoc(k) ELSE NoActivity]
    /\ shareOutcome = [u \in Users |-> NoShare]
    /\ onceADayRun = [u \in Users |-> 0]
    /\ rewards = [id \in RewardIds |-> NoReward]
    /\ userRewards = NoRecords
    /\ NoRequests
    /\ NoActivityRequests
    /\ NoOperations
    /\ NoNotifications

InitActivity == StartAfter(0)

NextActivity ==
    \/ TransferLands
    \/ \E u \in QuestUsers : \E forceRefresh \in BOOLEAN :
       \E blockSeen \in {0, chain.block} : \E blockInScan \in {0, chain.block} :
       \E indexerUp \in BOOLEAN :
           ActivityGET(u, forceRefresh, blockSeen, blockInScan,
                       IF indexerUp THEN chain.outbound ELSE <<>>,
                       IF indexerUp THEN chain.inbound ELSE <<>>)
    \/ \E u \in QuestUsers : \E type \in ReportedTypes : \E hash \in ReportedHashes :
           ActivityPOST(u, type, hash, "")
    \/ \E u \in QuestUsers : CompleteEarlyAdopterQuest(u)
    \/ \E u \in QuestUsers : \E q \in ShareQuestIds : CompleteShareQuest(u, q)

SpecActivity == InitActivity /\ [][NextActivity]_vars

\* The scan and the reports of an address with a long history.
InitCap == StartAfter(LongHistory)

NextCap ==
    \/ TransferLands
    \/ \E u \in QuestUsers : \E forceRefresh \in BOOLEAN : \E block \in {0, chain.block} :
           ActivityGET(u, forceRefresh, block, block, chain.outbound, chain.inbound)
    \/ \E u \in QuestUsers : \E hash \in ReportedHashes : ActivityPOST(u, "swap", hash, "")

SpecCap == InitCap /\ [][NextCap]_vars

\* The GET steps of an address that scan.
Scans(address) ==
    \E forceRefresh \in BOOLEAN :
    \E blockSeen \in {0, chain.block} : \E blockInScan \in {0, chain.block} :
    \E indexerUp \in BOOLEAN :
        /\ shouldScan(users[address], activityLog[address], forceRefresh, blockSeen)
        /\ ActivityGET(address, forceRefresh, blockSeen, blockInScan,
                       IF indexerUp THEN chain.outbound ELSE <<>>,
                       IF indexerUp THEN chain.inbound ELSE <<>>)

Merges(address) == Scans(address) /\ Len(scanHistory'[address].fetched) > 0

MergeInput(address) == scanHistory'[address].fetched \o activityLog[address].activities

\* The stored activities, NFT transfers apart, of a hash and direction.
StoredTransfers(activities, hash, direction) ==
    {i \in 1..Len(activities) : /\ activities[i].hash = hash
                                /\ activities[i].direction = direction
                                /\ activities[i].type # "nft_transfer"}

\* C14: after a merge, each (hash, direction) that a non-NFT record of the
\* merged lists carries has exactly one stored non-NFT activity, and the
\* stored total counts the points of that activity once.
C14_OnePerHashAndDirection ==
    [][\A u \in QuestUsers :
          Merges(u) =>
              /\ \A k \in StoredTransfers(MergeInput(u), TxHash(1), "outbound")
                         \cup StoredTransfers(MergeInput(u), TxHash(2), "outbound") :
                     Cardinality(StoredTransfers(activityLog'[u].activities,
                                                 MergeInput(u)[k].hash, "outbound")) = 1
              /\ users'[u].totalPoints = PointsOf(activityLog'[u].activities)]_vars

\* The rank of a level label in either threshold table, and of a number
\* of points.
LevelRank(level) ==
    CASE level \in {"Diamond Hands", "Diamond"} -> 5
      [] level \in {"Whale", "Platinum"} -> 4
      [] level \in {"DeFi Master", "Gold"} -> 3
      [] level \in {"Crypto Native", "Silver"} -> 2
      [] level \in {"HODLer", "Bronze"} -> 1
      [] OTHER -> 0

RankOf(points) == LevelRank(LevelOf(points))

\* C18: a stored activity document holds combinedPoints = totalPoints + the
\* user's totalQuestPoints, and the level of that sum (under either set of
\* labels).
C18_CombinedPointsConsistent ==
    \A u \in QuestUsers :
        users[u].exists =>
            /\ users[u].combinedPoints = users[u].totalPoints + userQuests[u].totalQuestPoints
            /\ LevelRank(users[u].level) = RankOf(users[u].totalPoints + userQuests[u].totalQuestPoints)

\* C19: the stored totalPoints is the sum of the points of the stored
\* activities.
C19_TotalIsSumOfStored ==
    \A u \in QuestUsers :
        users[u].exists => users[u].totalPoints = PointsOf(activityLog[u].activities)

\* C20: a stored activity document holds at most 100 activities.
C20_AtMostCapStored ==
    \A u \in QuestUsers : Len(activityLog[u].activities) <= ActivityCap

(***************************************************************************)
(* Notifications: sendFrameNotification and sendBroadcastNotification over *)
(* the user_notifications collection.  `sent` counts the requests made to  *)
(* the notification endpoint.                                              *)
(***************************************************************************)
MaxRecipients == 25

batchSize == 10

\* What the notification endpoint does with a request: answers 200 with no
\* rate-limited token, 200 with one, 200 with a body that fails the schema,
\* another status, or nothing (fetch or response.json() throws).
Responses == {"ok", "rate_limited", "invalid", "http_error", "throws"}

\* sendFrameNotification without notificationDetails: the state it returns.
sendFrameNotification(fid, stored, response) ==
    IF fid \notin stored THEN "no_token"
    ELSE IF response = "ok" THEN "success"
    ELSE IF response = "rate_limited" THEN "rate_limit"
    ELSE "error"

\* Faulty variant: a send that ends in an error is not counted.
Counted_DropsErrors(results, state) ==
    CASE state = "success" -> [results EXCEPT !.successful = @ + 1]
      [] state = "rate_limit" -> [results EXCEPT !.rateLimited = @ + 1]
      [] state = "no_token" -> [results EXCEPT !.noToken = @ + 1]
      [] OTHER -> results

\* The switch on result.state in the callback of a batch.
Counted(results, state) ==
    CASE state = "success" -> [results EXCEPT !.successful = @ + 1]
      [] state = "rate_limit" -> [results EXCEPT !.rateLimited = @ + 1]
      [] state = "no_token" -> [results EXCEPT !.noToken = @ + 1]
      [] state = "error" -> [results EXCEPT !.failed = @ + 1]

RECURSIVE FidsFrom(_, _)
FidsFrom(from, to) ==
    IF from > to THEN <<>>
    ELSE IF from = to THEN <<from>>
    ELSE LET middle == (from + to) \div 2
         IN FidsFrom(from, middle) \o FidsFrom(middle + 1, to)

\* The fids 1..n, as a userFids array or as the documents of the collection.
FidsUpTo(n) == FidsFrom(1, n)

Min(a, b) == IF a <= b THEN a ELSE b

\* sendBroadcastNotification begins: with userFids when given (an empty
\* array is given too), otherwise with the fids of getAllNotificationUsers,
\* which is [] when the read fails.
StartBroadcast(given, userFids, storeUp) ==
    /\ broadcast.at = "idle"
    /\ broadcast' = [NoBroadcast EXCEPT
                        !.at = "loop",
                        !.targetUsers = IF given THEN userFids
                                        ELSE IF storeUp THEN FidsUpTo(Cardinality(tokens))
                                        ELSE <<>>]
    /\ UNCHANGED <<tokens, sent, hook, created, questVars, rewardVars, activityVars, raceVars>>

\* The loop test passes: the batch targetUsers.slice(i, i + batchSize) is
\* issued, one send per fid.
IssueBatch ==
    /\ broadcast.at = "loop"
    /\ broadcast.i < Len(broadcast.targetUsers)
    /\ LET size == Min(broadcast.i + batchSize, Len(broadcast.targetUsers)) - broadcast.i
       IN broadcast' = [broadcast EXCEPT
                            !.at = "batch", !.pending = size,
                            !.batches = Append(@, size),
                            !.attempted = @ \o SubSeq(broadcast.targetUsers,
                                                      broadcast.i + 1, broadcast.i + size)]
    /\ UNCHANGED <<tokens, sent, hook, created, questVars, rewardVars, activityVars, raceVars>>

\* One send of the batch settles and its callback counts the result.
Settle(response) ==
    /\ broadcast.at = "batch"
    /\ broadcast.pending > 0
    /\ LET issued == broadcast.batches[Len(broadcast.batches)]
           fid == broadcast.targetUsers[broadcast.i + (issued - broadcast.pending) + 1]
           state == sendFrameNotification(fid, tokens, response)
       IN /\ broadcast' = [broadcast EXCEPT !.pending = @ - 1,
                                            !.results = Counted(@, state)]
          /\ sent' = IF fid \in tokens THEN sent + 1 ELSE sent
    /\ UNCHANGED <<tokens, hook, created, questVars, rewardVars, activityVars, raceVars>>

\* Faulty variant: the loop goes on while sends of the batch are in flight.
NextBatch_NoWait ==
    /\ broadcast.at = "batch"
    /\ broadcast' = [broadcast EXCEPT !.at = "loop", !.i = @ + batchSize]
    /\ UNCHANGED <<tokens, sent, hook, created, questVars, rewardVars, activityVars, raceVars>>

\* Promise.all resolves; the loop goes on with i += batchSize.
NextBatch ==
    /\ broadcast.at = "batch"
    /\ broadcast.pending = 0
    /\ broadcast' = [broadcast EXCEPT !.at = "loop", !.i = @ + batchSize]
    /\ UNCHANGED <<tokens, sent, hook, created, questVars, rewardVars, activityVars, raceVars>>

\* The loop test fails; the results are returned.
ReturnResults ==
    /\ broadcast.at = "loop"
    /\ broadcast.i >= Len(broadcast.targetUsers)
    /\ broadcast' = [broadcast EXCEPT !.at = "returned"]
    /\ UNCHANGED <<tokens, sent, hook, created, questVars, rewardVars, activityVars, raceVars>>

\* Audiences of a broadcast: none, one fid, a full batch, a batch and one
\* more, the largest.
Audiences == {0, 1, batchSize, batchSize + 1, MaxRecipients}

InitBroadcast ==
    /\ today = 1
    /\ catalog = <<>>
    /\ userQuests = [u \in Users |-> NoQuestData]
    /\ users = [u \in Users |-> NoActivity]
    /\ shareOutcome = [u \in Users |-> NoShare]
    /\ onceADayRun = [u \in Users |-> 0]
    /\ rewards = [id \in RewardIds |-> NoReward]
    /\ userRewards = NoRecords
    /\ NoRequests
    /\ NoActivityRequests
    /\ NoOperations
    /\ \E n \in Audiences : tokens = 1..n
    /\ sent = 0
    /\ hook = NoHook
    /\ broadcast = NoBroadcast
    /\ created = NoCreation

NextBroadcast ==
    \/ \E given \in BOOLEAN : \E n \in Audiences : \E storeUp \in BOOLEAN :
           StartBroadcast(given, FidsUpTo(n), storeUp)
    \/ IssueBatch
    \/ \E response \in Responses : Settle(response)
    \/ NextBatch
    \/ ReturnResults

SpecBroadcast == InitBroadcast /\ [][NextBroadcast]_vars

\* C15: a broadcast to n recipients that has returned issued ceil(n/10)
\* batches, each of 10 recipients except the last, which holds the rest, and
\* its four counts add up to n.
C15_BatchesAndCounts ==
    LET n == Len(broadcast.targetUsers)
        issued == broadcast.batches
        results == broadcast.results
    IN broadcast.at = "returned" =>
           /\ Len(issued) = (n + 9) \div 10
           /\ \A k \in 1..(Len(issued) - 1) : issued[k] = 10
           /\ n > 0 => /\ issued[Len(issued)] = n - 10 * (Len(issued) - 1)
                       /\ issued[Len(issued)] \in 1..10
           /\ results.successful + results.failed + results.rateLimited
                  + results.noToken = n

\* A broadcast to more than two batches of recipients, not a multiple of
\* ten, has returned with every kind of result counted.
C15_Witness ==
    /\ broadcast.at = "returned"
    /\ Len(broadcast.targetUsers) > 20
    /\ Len(broadcast.batches) = 3
    /\ broadcast.batches[3] < 10
    /\ broadcast.results.successful > 0
    /\ broadcast.results.failed > 0
    /\ broadcast.results.rateLimited > 0
    /\ broadcast.results.noToken > 0

(***************************************************************************)
(* The lifecycle webhook: POST /api/webhook                                *)
(***************************************************************************)
\* Requests to the notification endpoint in one run of the webhook scenario.
MaxSent == 3

\* What the Key Registry call of verifyFidOwnership does: returns the key as
\* added for the fid (state 1, keyType 1), returns another key state, or
\* throws.
RegistryAnswers == {"added", "other", "throws"}

\* Faulty variant: a failed call counts as a verified key.
verifyFidOwnership_OpenOnError(registry) == registry # "other"

\* verifyFidOwnership: result.state === 1 && result.keyType === 1; false
\* when readContract throws.
verifyFidOwnership(registry) ==
    IF registry = "throws" THEN FALSE ELSE registry = "added"

Events == {"frame_added", "frame_removed", "notifications_enabled",
           "notifications_disabled", "unknown"}

\* Faulty variant: frame_added without details leaves the stored token.
AfterEvent_KeepsOnAdd(stored, fid, event, withDetails) ==
    CASE event \in {"frame_added", "notifications_enabled"} ->
             IF withDetails THEN stored \cup {fid} ELSE stored
      [] event \in {"frame_removed", "notifications_disabled"} -> stored \ {fid}
      [] OTHER -> stored

\* What the switch on event.event does to the stored tokens.
AfterEvent(stored, fid, event, withDetails) ==
    CASE event = "frame_added" -> IF withDetails THEN stored \cup {fid} ELSE stored \ {fid}
      [] event = "frame_removed" -> stored \ {fid}
      [] event = "notifications_enabled" -> IF withDetails THEN stored \cup {fid} ELSE stored
      [] event = "notifications_disabled" -> stored \ {fid}
      [] OTHER -> stored

\* The events that write to the collection, and those that go on to send the
\* welcome notification.
Writes(event, withDetails) ==
    \/ event \in {"frame_added", "frame_removed", "notifications_disabled"}
    \/ event = "notifications_enabled" /\ withDetails

Welcomes(event, withDetails) ==
    event \in {"frame_added", "notifications_enabled"} /\ withDetails

\* The request bodies: without header or payload, with ones that do not
\* decode (JSON.parse throws), with ones that do.
Bodies == {"missing", "garbled", "decodes"}

\* POST /api/webhook.  fid, key: the header's (0, "" when absent); storeUp:
\* the write to the collection succeeds (it is rethrown otherwise, and
\* answered with 500).  The welcome notification goes to the token that was
\* just stored.
WebhookPOST(body, fid, key, event, withDetails, registry, storeUp) ==
    /\ sent < MaxSent
    /\ IF body = "missing"
       THEN /\ hook' = [status |-> 400, fid |-> 0, event |-> "", details |-> FALSE]
            /\ UNCHANGED <<tokens, sent>>
       ELSE IF body = "garbled"
       THEN /\ hook' = [status |-> 500, fid |-> 0, event |-> "", details |-> FALSE]
            /\ UNCHANGED <<tokens, sent>>
       ELSE IF fid = 0 \/ key = ""
       THEN /\ hook' = [status |-> 400, fid |-> fid, event |-> event,
                     details |-> withDetails]
            /\ UNCHANGED <<tokens, sent>>
       ELSE IF ~verifyFidOwnership(registry)
       THEN /\ hook' = [status |-> 401, fid |-> fid, event |-> event,
                     details |-> withDetails]
            /\ UNCHANGED <<tokens, sent>>
       ELSE IF Writes(event, withDetails) /\ ~storeUp
       THEN /\ hook' = [status |-> 500, fid |-> fid, event |-> event,
                     details |-> withDetails]
            /\ UNCHANGED <<tokens, sent>>
       ELSE /\ hook' = [status |-> 200, fid |-> fid, event |-> event,
                     details |-> withDetails]
            /\ tokens' = AfterEvent(tokens, fid, event, withDetails)
            /\ sent' = IF Welcomes(event, withDetails) THEN sent + 1 ELSE sent
    /\ UNCHANGED <<broadcast, created, questVars, rewardVars, activityVars, raceVars>>

HookFids == {0, 1, 2}
HookKeys == {"", "0xkey"}

InitWebhook ==
    /\ today = 1
    /\ catalog = <<>>
    /\ userQuests = [u \in Users |-> NoQuestData]
    /\ users = [u \in Users |-> NoActivity]
    /\ shareOutcome = [u \in Users |-> NoShare]
    /\ onceADayRun = [u \in Users |-> 0]
    /\ rewards = [id \in RewardIds |-> NoReward]
    /\ userRewards = NoRecords
    /\ NoRequests
    /\ NoActivityRequests
    /\ NoOperations
    /\ NoNotifications

NextWebhook ==
    \E body \in Bodies : \E fid \in HookFids : \E key \in HookKeys :
    \E event \in Events : \E withDetails \in BOOLEAN :
    \E registry \in RegistryAnswers : \E storeUp \in BOOLEAN :
        WebhookPOST(body, fid, key, event, withDetails, registry, storeUp)

SpecWebhook == InitWebhook /\ [][NextWebhook]_vars

\* C16: a webhook whose header carries a fid and a key for which the
\* ownership call returns false or throws is rejected with 401, whatever
\* its event: the stored tokens are unchanged and no notification is sent.
C16_FailsClosed ==
    [][\A fid \in HookFids \ {0} : \A key \in HookKeys \ {""} :
       \A event \in Events : \A withDetails \in BOOLEAN :
       \A registry \in RegistryAnswers \ {"added"} : \A storeUp \in BOOLEAN :
           WebhookPOST("decodes", fid, key, event, withDetails, registry, storeUp)
           => /\ hook'.status = 401
              /\ tokens' = tokens
              /\ sent' = sent]_vars

\* An unverified frame_removed for a fid whose token is stored was rejected,
\* and the token is still stored.
C16_Witness ==
    /\ hook.status = 401
    /\ hook.event = "frame_removed"
    /\ hook.fid \in tokens
    /\ sent > 0

(***************************************************************************)
(* Creation: POST /api/quests/create and POST /api/rewards/create          *)
(***************************************************************************)
validTypes == {"early_adopter", "activity_based", "streak_based"}

\* What the notification step after the write does: returns (whatever the
\* sends came to) or throws.
BroadcastOutcomes == {"returns", "throws"}

\* Faulty variant: a broadcast that threw turns the response into an error.
creationStatus_FailsWithBroadcast(written, notified) ==
    IF written /\ notified # "threw" THEN 200 ELSE 500

\* The status of a creation request that passed validation: 500 from the
\* outer catch when setDoc threw; the inner catch swallows what the
\* notification step throws.
creationStatus(written, notified) == IF written THEN 200 ELSE 500

Rejected(kind) == [status |-> 400, kind |-> kind, written |-> FALSE, notified |-> ""]

\* POST /api/quests/create.  complete: title, description, type and rewards
\* are in the body.  The broadcast runs for an active quest and reaches
\* every stored token when it returns.
QuestsCreatePOST(complete, quest, isActive, storeUp, broadcastOutcome) ==
    /\ IF ~complete \/ quest.type \notin validTypes
       THEN created' = Rejected("quest") /\ UNCHANGED <<catalog, sent>>
       ELSE IF ~storeUp
       THEN /\ created' = [status |-> creationStatus(FALSE, ""), kind |-> "quest",
                           written |-> FALSE, notified |-> ""]
            /\ UNCHANGED <<catalog, sent>>
       ELSE LET notified == IF ~isActive THEN "skipped"
                            ELSE IF broadcastOutcome = "throws" THEN "threw"
                            ELSE "returned"
            IN /\ catalog' = <<[quest EXCEPT !.isActive = isActive]>> \o catalog
               /\ sent' = IF notified = "returned" THEN sent + Cardinality(tokens) ELSE sent
               /\ created' = [status |-> creationStatus(TRUE, notified), kind |-> "quest",
                              written |-> TRUE, notified |-> notified]
    /\ UNCHANGED <<today, userQuests, users, shareOutcome, onceADayRun, rewardVars,
                   activityVars, raceVars, tokens, hook, broadcast>>

\* POST /api/rewards/create.  complete: name, description, type and a valid
\* pointsReward are in the body.  The notifications go out for inactive
\* rewards too.
RewardsCreatePOST(complete, id, reward, storeUp, broadcastOutcome) ==
    /\ ~rewards[id].exists
    /\ IF ~complete
       THEN created' = Rejected("reward") /\ UNCHANGED <<rewards, sent>>
       ELSE IF ~storeUp
       THEN /\ created' = [status |-> creationStatus(FALSE, ""), kind |-> "reward",
                           written |-> FALSE, notified |-> ""]
            /\ UNCHANGED <<rewards, sent>>
       ELSE LET notified == IF broadcastOutcome = "throws" THEN "threw" ELSE "returned"
            IN /\ rewards' = [rewards EXCEPT ![id] = reward]
               /\ sent' = IF notified = "returned" THEN sent + Cardinality(tokens) ELSE sent
               /\ created' = [status |-> creationStatus(TRUE, notified), kind |-> "reward",
                              written |-> TRUE, notified |-> notified]
    /\ UNCHANGED <<questVars, userRewards, pc, req, snap, outcome, listed, afterSuccess,
                   activityVars, raceVars, tokens, hook, broadcast>>

\* The quest an admin submits next.
NextQuest == PublishOrder[Len(catalog) + 1]

InitCreate ==
    /\ today = 1
    /\ catalog = <<>>
    /\ userQuests = [u \in Users |-> NoQuestData]
    /\ users = [u \in Users |-> NoActivity]
    /\ shareOutcome = [u \in Users |-> NoShare]
    /\ onceADayRun = [u \in Users |-> 0]
    /\ rewards = [id \in RewardIds |-> NoReward]
    /\ userRewards = NoRecords
    /\ NoRequests
    /\ NoActivityRequests
    /\ NoOperations
    /\ \E holders \in {{}, {1, 2}} : tokens = holders
    /\ sent = 0
    /\ hook = NoHook
    /\ broadcast = NoBroadcast
    /\ created = NoCreation

NextCreate ==
    \/ \E complete \in BOOLEAN : \E isActive \in BOOLEAN : \E storeUp \in BOOLEAN :
       \E broadcastOutcome \in BroadcastOutcomes :
           /\ Len(catalog) < Len(PublishOrder)
           /\ QuestsCreatePOST(complete, NextQuest, isActive, storeUp, broadcastOutcome)
    \/ \E complete \in BOOLEAN : \E id \in RewardIds : \E reward \in RewardDocs :
       \E storeUp \in BOOLEAN : \E broadcastOutcome \in BroadcastOutcomes :
           RewardsCreatePOST(complete, id, reward, storeUp, broadcastOutcome)

SpecCreate == InitCreate /\ [][NextCreate]_vars

\* The documents of the two collections.
QuestIdsOf(quests) == {quests[i].id : i \in 1..Len(quests)}

\* C17: a creation request whose document write succeeded returns 200 and
\* the document is stored, whether the notification step returns or throws;
\* and no step removes a quest or a reward.
C17_CreationSurvivesBroadcast ==
    [][/\ \A isActive \in BOOLEAN : \A broadcastOutcome \in BroadcastOutcomes :
            (/\ Len(catalog) < Len(PublishOrder)
             /\ NextQuest.type \in validTypes
             /\ QuestsCreatePOST(TRUE, NextQuest, isActive, TRUE, broadcastOutcome))
            => /\ created'.status = 200
               /\ NextQuest.id \in QuestIdsOf(catalog')
       /\ \A id \in RewardIds : \A reward \in RewardDocs :
          \A broadcastOutcome \in BroadcastOutcomes :
            RewardsCreatePOST(TRUE, id, reward, TRUE, broadcastOutcome)
            => /\ created'.status = 200
               /\ rewards'[id] = reward
       /\ QuestIdsOf(catalog) \subseteq QuestIdsOf(catalog')
       /\ \A id \in RewardIds : rewards[id].exists => rewards'[id].exists]_vars

\* A reward was created although its notification step threw, after a quest
\* had been created.
C17_Witness ==
    /\ created.kind = "reward"
    /\ created.status = 200
    /\ created.notified = "threw"
    /\ \E id \in RewardIds : rewards[id].exists
    /\ Len(catalog) > 0

\* The uniqueness key of two stored activities is the same: hash, direction,
\* asset and tokenId for two NFT transfers, hash and direction for two others.
SameKey(a, b) ==
    /\ a.hash = b.hash
    /\ a.direction = b.direction
    /\ (a.type = "nft_transfer") = (b.type = "nft_transfer")
    /\ a.type = "nft_transfer" => (a.asset = b.asset /\ a.tokenId = b.tokenId)

\* C21: no two activities stored for an address share the uniqueness key.
C21_StoredKeysUnique ==
    \A u \in QuestUsers :
        \A i, j \in 1..Len(activityLog[u].activities) :
            i # j => ~SameKey(activityLog[u].activities[i], activityLog[u].activities[j])

\* A scan is due: no stored record, forceRefresh, or an initial scan completed
\* and a current block (0: the lookup failed) above the last scanned one.
ScanDue(address, forceRefresh, blockSeen) ==
    \/ ~users[address].exists
    \/ forceRefresh
    \/ /\ activityLog[address].isInitialScanComplete
       /\ blockSeen > activityLog[address].lastScannedBlock

C23_EmptyScanAdvances ==
    [][\A u \in QuestUsers : \A forceRefresh \in BOOLEAN :
       \A blockSeen \in {0, chain.block} : \A blockInScan \in {chain.block} :
       \A indexerUp \in BOOLEAN :
          LET outboundTransfers == IF indexerUp THEN chain.outbound ELSE <<>>
              inboundTransfers == IF indexerUp THEN chain.inbound ELSE <<>>
          IN (/\ shouldScan(users[u], activityLog[u], forceRefresh, blockSeen)
              /\ ScanOf(u, blockInScan, outboundTransfers,
                        inboundTransfers).newActivities = <<>>
              /\ ActivityGET(u, forceRefresh, blockSeen, blockInScan,
                             outboundTransfers, inboundTransfers))
             => activityLog'[u].lastScannedBlock = blockInScan]_vars

\* The ids of the quests of the active catalog.
ActiveIds == {catalog[i].id : i \in {k \in 1..Len(catalog) : catalog[k].isActive}}

C25_NewStreakQuestGetsStreak ==
    [][\A u \in QuestUsers :
          LET quests == getQuestsFromFirebase(catalog)
              streakIndex == First({i \in 1..Len(quests) : quests[i].type = "streak_based"})
          IN (/\ userQuests[u].exists
              /\ streakIndex # 0
              /\ EntryOf(userQuests[u], quests[streakIndex].id) = 0
              /\ QuestsGET(u))
             => /\ EntryOf(userQuests'[u], quests[streakIndex].id) # 0
                /\ ProgressOf(userQuests'[u], quests[streakIndex].id) =
                       userQuests'[u].dailyLoginStreak]_vars

Lifecycle ==
    {"frame_added", "frame_removed", "notifications_enabled", "notifications_disabled"}

RECURSIVE RecordsOf(_, _)
RecordsOf(rewardId, userIds) ==
    IF userIds = {} THEN 0
    ELSE LET u == CHOOSE x \in userIds : TRUE
         IN userRewards[<<u, rewardId>>] + RecordsOf(rewardId, userIds \ {u})

\* C28: when no redemption is under way, the currentRedemptions of every
\* reward is the number of UserReward records that exist for it.
C28_CountMatchesRecords ==
    (\A p \in Slots : pc[p] \in {"idle", "done"})
    => \A id \in RewardIds :
           rewards[id].currentRedemptions = RecordsOf(id, Users)

(***************************************************************************)
(* Quest operations of one user step by step: every awaited read and write *)
(* of updateDailyLoginStreak and completeShareQuest is a step, so the two  *)
(* operations interleave.                                                  *)
(***************************************************************************)
\* The store in which userQuests/{userId} is the document an operation read.
AsRead(userId, data) == [uq |-> [userQuests EXCEPT ![userId] = data], us |-> users]

\* quests.find(q => q.type === 'streak_based' && q.isActive): its index, 0 if none.
StreakIndex(cat) ==
    LET quests == getQuestsFromFirebase(cat)
    IN First({i \in 1..Len(quests) : quests[i].type = "streak_based" /\ quests[i].isActive})

\* updateDailyLoginStreak: getDoc; a missing document is initialized.
LoginGetDoc(userId) ==
    /\ questOps[userId].login.at \in {"idle", "done"}
    /\ questOps[userId].login.runs < MaxRuns
    /\ IF userQuests[userId].exists
       THEN /\ questOps' = [questOps EXCEPT ![userId].login =
                                [NoQuestOp EXCEPT !.at = "read", !.data = userQuests[userId],
                                                  !.runs = questOps[userId].login.runs + 1]]
            /\ UNCHANGED userQuests
       ELSE /\ userQuests' = initializeUserQuestData(Store, userId, catalog, today).uq
            /\ questOps' = [questOps EXCEPT ![userId].login =
                                [NoQuestOp EXCEPT !.at = "done",
                                                  !.runs = questOps[userId].login.runs + 1]]
    /\ UNCHANGED <<today, catalog, users, shareOutcome, onceADayRun, scanOps,
                   rewardVars, activityVars, notifVars>>

\* updateDailyLoginStreak: updateDoc of dailyLoginStreak and lastLoginDate.
LoginUpdateDoc(userId) ==
    /\ questOps[userId].login.at = "read"
    /\ LET streak == NextStreak(questOps[userId].login.data, today)
       IN /\ userQuests' = [userQuests EXCEPT ![userId].dailyLoginStreak = streak,
                                              ![userId].lastLoginDate = today]
          /\ questOps' = [questOps EXCEPT
                             ![userId].login.at =
                                 IF StreakIndex(catalog) # 0 THEN "updated" ELSE "done",
                             ![userId].login.streak = streak]
    /\ UNCHANGED <<today, catalog, users, shareOutcome, onceADayRun, scanOps,
                   rewardVars, activityVars, notifVars>>

\* checkAndUpdateQuestProgress of the streak quest: getDoc.
ProgressGetDoc(userId) ==
    /\ questOps[userId].login.at = "updated"
    /\ questOps' = [questOps EXCEPT ![userId].login.at = "progressRead",
                                    ![userId].login.data = userQuests[userId]]
    /\ UNCHANGED <<questVars, scanOps, rewardVars, activityVars, notifVars>>

\* checkAndUpdateQuestProgress: nothing when the document it read has no
\* entry for the quest; otherwise the level update and the updateDoc of
\* quests, totalQuestPoints and totalQuestsCompleted computed from that
\* document.
ProgressUpdateDoc(userId) ==
    /\ questOps[userId].login.at = "progressRead"
    /\ LET op == questOps[userId].login
           questId == getQuestsFromFirebase(catalog)[StreakIndex(catalog)].id
           S == checkAndUpdateQuestProgress(AsRead(userId, op.data), userId, questId,
                                            op.streak, catalog, today)
       IN IF ~op.data.exists \/ EntryOf(op.data, questId) = 0
          THEN UNCHANGED <<userQuests, users>>
          ELSE /\ userQuests' = [userQuests EXCEPT
                                    ![userId].quests = S.uq[userId].quests,
                                    ![userId].totalQuestPoints = S.uq[userId].totalQuestPoints,
                                    ![userId].totalQuestsCompleted =
                                        S.uq[userId].totalQuestsCompleted]
               /\ users' = S.us
    /\ questOps' = [questOps EXCEPT ![userId].login.at = "done"]
    /\ UNCHANGED <<today, catalog, shareOutcome, onceADayRun, scanOps,
                   rewardVars, activityVars, notifVars>>

\* completeShareQuest: getUserQuestData; a missing document is initialized
\* and read again.
ShareGetDoc(userId, questId) ==
    /\ questOps[userId].share.at \in {"idle", "done"}
    /\ questOps[userId].share.runs < MaxRuns
    /\ LET S == IF userQuests[userId].exists THEN Store
                ELSE initializeUserQuestData(Store, userId, catalog, today)
       IN /\ userQuests' = S.uq
          /\ questOps' = [questOps EXCEPT ![userId].share =
                              [NoQuestOp EXCEPT !.at = "read", !.data = S.uq[userId],
                                                !.questId = questId,
                                                !.runs = questOps[userId].share.runs + 1]]
    /\ UNCHANGED <<today, catalog, users, shareOutcome, onceADayRun, scanOps,
                   rewardVars, activityVars, notifVars>>

\* completeShareQuest: the checks, then the updateDoc of quests computed from
\* the document it read.
ShareUpdateQuests(userId) ==
    /\ questOps[userId].share.at = "read"
    /\ LET op == questOps[userId].share
           call == completeShareQuest(AsRead(userId, op.data), userId, op.questId,
                                      catalog, today)
       IN IF ~call.result.success
          THEN /\ shareOutcome' = [shareOutcome EXCEPT ![userId] = call.result]
               /\ questOps' = [questOps EXCEPT ![userId].share.at = "done"]
               /\ UNCHANGED userQuests
          ELSE /\ userQuests' = [userQuests EXCEPT
                                    ![userId].quests = call.S.uq[userId].quests]
               /\ IF call.result.pointsEarned > 0
                  THEN /\ questOps' = [questOps EXCEPT ![userId].share.at = "questsWritten"]
                       /\ UNCHANGED shareOutcome
                  ELSE /\ questOps' = [questOps EXCEPT ![userId].share.at = "done"]
                       /\ shareOutcome' = [shareOutcome EXCEPT ![userId] = call.result]
    /\ UNCHANGED <<today, catalog, users, onceADayRun, scanOps,
                   rewardVars, activityVars, notifVars>>

\* completeShareQuest: the updateDoc of the totals, from the document it read.
ShareUpdateTotals(userId) ==
    /\ questOps[userId].share.at = "questsWritten"
    /\ LET op == questOps[userId].share
           call == completeShareQuest(AsRead(userId, op.data), userId, op.questId,
                                      catalog, today)
       IN /\ userQuests' = [userQuests EXCEPT
                               ![userId].totalQuestsCompleted =
                                   call.S.uq[userId].totalQuestsCompleted,
                               ![userId].totalQuestPoints =
                                   call.S.uq[userId].totalQuestPoints]
          /\ shareOutcome' = [shareOutcome EXCEPT ![userId] = call.result]
    /\ questOps' = [questOps EXCEPT ![userId].share.at = "done"]
    /\ UNCHANGED <<today, catalog, users, onceADayRun, scanOps,
                   rewardVars, activityVars, notifVars>>

\* The user opened the quests on day 1 with the three quests published, and
\* it is day 2.
InitQuestRace ==
    /\ today = 2
    /\ catalog = CatalogOf(Len(PublishOrder))
    /\ \E a \in ActivityDocs :
          LET S0 == [uq |-> [u \in Users |-> NoQuestData],
                     us |-> [u \in Users |-> IF u \in QuestUsers THEN a ELSE NoActivity]]
              S1 == initializeUserQuestData(S0, "u1", catalog, 1)
              S2 == updateDailyLoginStreak(S1, "u1", catalog, 1)
          IN userQuests = S2.uq /\ users = S2.us
    /\ shareOutcome = [u \in Users |-> NoShare]
    /\ onceADayRun = [u \in Users |-> 0]
    /\ rewards = [id \in RewardIds |-> NoReward]
    /\ userRewards = NoRecords
    /\ NoRequests
    /\ NoActivityRequests
    /\ NoOperations
    /\ NoNotifications

NextQuestRace ==
    \/ \E u \in QuestUsers : LoginGetDoc(u)
    \/ \E u \in QuestUsers : LoginUpdateDoc(u)
    \/ \E u \in QuestUsers : ProgressGetDoc(u)
    \/ \E u \in QuestUsers : ProgressUpdateDoc(u)
    \/ \E u \in QuestUsers : \E q \in ShareQuestIds : ShareGetDoc(u, q)
    \/ \E u \in QuestUsers : ShareUpdateQuests(u)
    \/ \E u \in QuestUsers : ShareUpdateTotals(u)

SpecQuestRace == InitQuestRace /\ [][NextQuestRace]_vars

\* The ids of the user's quests that are completed.
CompletedIds(doc) ==
    {doc.quests[i].questId : i \in {k \in 1..Len(doc.quests) : doc.quests[k].isCompleted}}

\* C29: when no quest operation of a user is in progress, the user's
\* totalQuestPoints is the sum of the points of the completed quests and
\* totalQuestsCompleted is their number.
C29_TotalsMatchCompleted ==
    \A u \in QuestUsers :
        (/\ questOps[u].login.at \in {"idle", "done"}
         /\ questOps[u].share.at \in {"idle", "done"})
        => /\ userQuests[u].totalQuestPoints = SumPoints(CompletedIds(userQuests[u]))
           /\ userQuests[u].totalQuestsCompleted = Cardinality(CompletedIds(userQuests[u]))

(***************************************************************************)
(* Overlapping GET /api/activity requests: the read and the scan of a      *)
(* request are one step, the write to users/{address} is another.          *)
(***************************************************************************)
\* GET: getUserActivity, the shouldScan decision and performBlockchainScan.
ScanStart(p, address, forceRefresh) ==
    /\ scanOps[p].at \in {"idle", "done"}
    /\ LET doc == users[address]
           log == activityLog[address]
           scanResult == ScanOf(address, chain.block, chain.outbound, chain.inbound)
       IN scanOps' = [scanOps EXCEPT ![p] =
              IF shouldScan(doc, log, forceRefresh, chain.block)
              THEN [at |-> "scanned", address |-> address, existed |-> doc.exists,
                    existingActivities |-> log.activities,
                    newActivities |-> scanResult.newActivities,
                    lastScannedBlock |-> scanResult.lastScannedBlock]
              ELSE [NoScanOp EXCEPT !.at = "done", !.address = address]]
    /\ UNCHANGED <<questVars, questOps, rewardVars, activityVars, notifVars>>

\* GET: saveUserActivity of the merge when the scan found activities,
\* otherwise updateLastScannedBlock, which throws without a document.
ScanPersist(p) ==
    /\ scanOps[p].at = "scanned"
    /\ LET op == scanOps[p]
           address == op.address
           scanResult == [newActivities |-> op.newActivities,
                          lastScannedBlock |-> op.lastScannedBlock]
           merged == MergedDocument(op.existingActivities, scanResult,
                                    userQuests[address].totalQuestPoints)
       IN IF Len(op.newActivities) > 0
          THEN /\ users' = [users EXCEPT ![address] = merged.doc]
               /\ activityLog' = [activityLog EXCEPT ![address] = merged.log]
          ELSE IF op.lastScannedBlock # 0 /\ users[address].exists
          THEN /\ activityLog' = [activityLog EXCEPT ![address].lastScannedBlock =
                                      op.lastScannedBlock]
               /\ UNCHANGED users
          ELSE UNCHANGED <<users, activityLog>>
    /\ scanOps' = [scanOps EXCEPT ![p].at = "done"]
    /\ UNCHANGED <<chain, scanHistory, today, catalog, userQuests, shareOutcome,
                   onceADayRun, questOps, rewardVars, notifVars>>

InitScanRace == StartAfter(0)

NextScanRace ==
    \/ TransferLands
    \/ \E p \in Slots : \E u \in QuestUsers : \E forceRefresh \in BOOLEAN :
           ScanStart(p, u, forceRefresh)
    \/ \E p \in Slots : ScanPersist(p)

SpecScanRace == InitScanRace /\ [][NextScanRace]_vars

\* C30: no step lowers the stored lastScannedBlock of an address.
C30_LastScannedBlockNeverDecreases ==
    [][\A u \in QuestUsers :
          activityLog'[u].lastScannedBlock >= activityLog[u].lastScannedBlock]_vars

====
